---- MODULE Spec2Model ----
(***************************************************************************)
(* Model of coursebuilder/modules/mapreduce/mapreduce_module.py: the two   *)
(* dispatch filters (authorization_wrapper, ui_access_wrapper), the        *)
(* response-body patches applied by ui_access_wrapper, and the route       *)
(* classification loop of register_module.                                 *)
(*                                                                         *)
(* Strings are TLA+ strings handled character by character (Len, SubSeq,   *)
(* \o), so every literal below is the literal of the source.               *)
(***************************************************************************)
EXTENDS Naturals, Sequences, FiniteSets, TLC

(***************************************************************************)
(* Python str primitives.                                                  *)
(***************************************************************************)

\* s.startswith(p)
startswith(s, p) == Len(p) <= Len(s) /\ SubSeq(s, 1, Len(p)) = p

\* s.endswith(p)
endswith(s, p) == Len(p) <= Len(s) /\ SubSeq(s, Len(s) - Len(p) + 1, Len(s)) = p

\* p in s
contains(s, p) == \E i \in 1..(Len(s) - Len(p) + 1) : SubSeq(s, i, i + Len(p) - 1) = p

\* s.find(p): the index (from 1) of the leftmost occurrence of p in s, or 0.
find(s, p) ==
    LET at == { k \in 1..(Len(s) - Len(p) + 1) : SubSeq(s, k, k + Len(p) - 1) = p }
    IN  IF at = {} THEN 0 ELSE CHOOSE k \in at : \A j \in at : k <= j

\* s.replace(old, new, count): the first count non-overlapping occurrences
\* of old, scanning from the left (old is never empty here).
RECURSIVE replace_n(_, _, _, _)
replace_n(s, old, new, count) ==
    LET k == find(s, old)
    IN  IF count = 0 \/ k = 0 THEN s
        ELSE SubSeq(s, 1, k - 1) \o new
                 \o replace_n(SubSeq(s, k + Len(old), Len(s)), old, new, count - 1)

\* s.replace(old, new): every non-overlapping occurrence.
replace(s, old, new) == replace_n(s, old, new, Len(s) + 1)

(***************************************************************************)
(* urllib.urlencode(params) of Python 2.7, for the dict built at lines     *)
(* 87-91.                                                                  *)
(***************************************************************************)

\* urllib.always_safe: characters quote_plus leaves alone.
always_safe ==
    { "a", "b", "c", "d", "e", "f", "g", "h", "i", "j", "k", "l", "m",
      "n", "o", "p", "q", "r", "s", "t", "u", "v", "w", "x", "y", "z",
      "A", "B", "C", "D", "E", "F", "G", "H", "I", "J", "K", "L", "M",
      "N", "O", "P", "Q", "R", "S", "T", "U", "V", "W", "X", "Y", "Z",
      "0", "1", "2", "3", "4", "5", "6", "7", "8", "9", "_", ".", "-" }

\* One character under quote_plus(s, safe=''): a space becomes '+', any
\* other character outside always_safe becomes %XX (printable ASCII; the
\* backquote, which no input of the model contains, is left out).
quote_char(c) ==
    IF c \in always_safe THEN c
    ELSE CASE c = " " -> "+"
         []  c = "!" -> "%21"
         []  c = "\"" -> "%22"
         []  c = "#" -> "%23"
         []  c = "$" -> "%24"
         []  c = "%" -> "%25"
         []  c = "&" -> "%26"
         []  c = "'" -> "%27"
         []  c = "(" -> "%28"
         []  c = ")" -> "%29"
         []  c = "*" -> "%2A"
         []  c = "+" -> "%2B"
         []  c = "," -> "%2C"
         []  c = "/" -> "%2F"
         []  c = ":" -> "%3A"
         []  c = ";" -> "%3B"
         []  c = "<" -> "%3C"
         []  c = "=" -> "%3D"
         []  c = ">" -> "%3E"
         []  c = "?" -> "%3F"
         []  c = "@" -> "%40"
         []  c = "[" -> "%5B"
         []  c = "\\" -> "%5C"
         []  c = "]" -> "%5D"
         []  c = "^" -> "%5E"
         []  c = "{" -> "%7B"
         []  c = "|" -> "%7C"
         []  c = "}" -> "%7D"
         []  c = "~" -> "%7E"

RECURSIVE quote_plus(_)
quote_plus(s) ==
    IF Len(s) = 0 THEN ""
    ELSE quote_char(SubSeq(s, 1, 1)) \o quote_plus(SubSeq(s, 2, Len(s)))

\* Variant: the parameters joined without quoting.
urlencode_params_unquoted(namespace, xsrf_token) ==
    LET t == IF xsrf_token # "" THEN "xsrf_token=" \o xsrf_token ELSE ""
        n == IF namespace # "" THEN "namespace=" \o namespace ELSE ""
    IN  IF t # "" /\ n # "" THEN t \o "&" \o n ELSE t \o n

\* params = {}; if namespace: params['namespace'] = namespace;
\* if xsrf_token: params['xsrf_token'] = xsrf_token; urlencode(params).
\* A CPython 2.7 dict holding both keys iterates 'xsrf_token' first (its
\* hash falls in slot 3 of the 8-slot table, 'namespace' in slot 4).
urlencode_params(namespace, xsrf_token) ==
    LET t == IF xsrf_token # "" THEN "xsrf_token=" \o quote_plus(xsrf_token) ELSE ""
        n == IF namespace # "" THEN "namespace=" \o quote_plus(namespace) ELSE ""
    IN  IF t # "" /\ n # "" THEN t \o "&" \o n ELSE t \o n

(***************************************************************************)
(* The four body patches of ui_access_wrapper (lines 93-117).              *)
(***************************************************************************)

\* path == '/mapreduce/ui/pipeline/status.js'
rewrite_pipeline_status_js(body) ==
    replace(body, "rpc/tree?", "rpc/tree' + window.location.search + '&")

\* path == '/mapreduce/ui/pipeline/rpc/tree'
rewrite_rpc_tree(body, extra_url_params) ==
    replace(body, "/mapreduce/worker/detail?",
            "/mapreduce/ui/detail?" \o extra_url_params \o "&")

\* path == '/mapreduce/ui/detail'
rewrite_detail(body, extra_url_params) ==
    replace(body, "src=\"status.js\"",
            "src=\"status.js?" \o extra_url_params \o "\"")

\* path == '/mapreduce/ui/status.js': the values go in raw (no encoding).
status_js_replacement(namespace, xsrf_token) ==
    "'namespace': '" \o namespace \o "', 'xsrf_token': '" \o xsrf_token
        \o "', 'mapreduce_id':"

rewrite_status_js(body, namespace, xsrf_token) ==
    replace(body, "'mapreduce_id':", status_js_replacement(namespace, xsrf_token))

\* Variant: the first two branches chosen by the end of the path.
patch_body_by_suffix(path, body, namespace, xsrf_token) ==
    LET extra_url_params == urlencode_params(namespace, xsrf_token)
    IN  IF endswith(path, "/status.js")
            THEN rewrite_pipeline_status_js(body)
        ELSE IF endswith(path, "/rpc/tree")
            THEN rewrite_rpc_tree(body, extra_url_params)
        ELSE IF path = "/mapreduce/ui/detail"
            THEN rewrite_detail(body, extra_url_params)
        ELSE IF path = "/mapreduce/ui/status.js"
            THEN rewrite_status_js(body, namespace, xsrf_token)
        ELSE body

\* The if/elif chain of lines 93-117 as a function of the request path.
patch_body(path, body, namespace, xsrf_token) ==
    LET extra_url_params == urlencode_params(namespace, xsrf_token)
    IN  IF path = "/mapreduce/ui/pipeline/status.js"
            THEN rewrite_pipeline_status_js(body)
        ELSE IF path = "/mapreduce/ui/pipeline/rpc/tree"
            THEN rewrite_rpc_tree(body, extra_url_params)
        ELSE IF path = "/mapreduce/ui/detail"
            THEN rewrite_detail(body, extra_url_params)
        ELSE IF path = "/mapreduce/ui/status.js"
            THEN rewrite_status_js(body, namespace, xsrf_token)
        ELSE body

\* response.charset after the chain: only the status.js branch sets it.
patch_charset(path, charset) ==
    IF path = "/mapreduce/ui/status.js" THEN "utf8" ELSE charset

(***************************************************************************)
(* State.                                                                  *)
(***************************************************************************)

VARIABLES
    enabled,          \* GCB_ENABLE_MAPREDUCE_DETAIL_ACCESS.value
    pc,               \* per execution context: where its request stands
    req,              \* per context: the request being dispatched
    resp,             \* per context: self.response
    ns,               \* per context: namespace_manager's current namespace
    saved,            \* per context: Namespace.old_namespace of the open with-block
    nscalls,          \* per context: set_namespace calls made for this request
    call,             \* per context: the pending real_dispatch(self, *args)
    seen,             \* per context: what each run of the wrapped handler saw
    rw,               \* a body under repeated application of one patch
    handlers_map,     \* mapreduce_main.create_handlers_map()
    i,                \* register_module: index of the next route of the loop
    global_handlers,  \* register_module: the table being assembled
    cls,              \* per handler class: its dispatch / real_dispatch attributes
    BASE_PATH,        \* mapreduce_parameters.config.BASE_PATH
    custom_module     \* the module-level custom_module

dispatch_vars == <<enabled, pc, req, resp, ns, saved, nscalls, call, seen>>
register_vars == <<handlers_map, i, global_handlers, cls, BASE_PATH, custom_module>>
vars == <<enabled, pc, req, resp, ns, saved, nscalls, call, seen, rw,
          handlers_map, i, global_handlers, cls, BASE_PATH, custom_module>>

(***************************************************************************)
(* Bounds and input domains.                                               *)
(***************************************************************************)

\* Execution contexts that serve requests concurrently.
NumCtx == 2

\* Fragments concatenated into a body handed to a patch.
MaxFrags == 2

\* Routes in a declared route table.
MaxRoutes == 2

Ctx == 1..NumCtx

XSRF_ACTION_NAME == "view-mapreduce-ui"

\* Namespace names the platform accepts ([0-9A-Za-z._-]*); "" is the default.
Namespaces == { "", "course1", "ns_2" }

\* Submitted xsrf_token values: none, one issued for XSRF_ACTION_NAME, one
\* issued for another action, and one never issued.
Tokens == { "", "tok123", "tok999", "a'b/c?" }

Paths ==
    { "/mapreduce/ui/pipeline/status.js",
      "/mapreduce/ui/pipeline/rpc/tree",
      "/mapreduce/ui/detail",
      "/mapreduce/ui/status.js",
      "/mapreduce/ui/base.css",
      "/mapreduce/ui/pipeline/list",
      "/static/x.js",
      "/mapreduce/worker/pipeline/run" }

\* Bodies the wrapped handler may write.
HandlerBodies ==
    { "",
      "var u = 'rpc/tree?root=';",
      "<script src=\"status.js\"></script>{'mapreduce_id': 7} /mapreduce/worker/detail?mapreduce_id=7 rpc/tree?a rpc/tree?b" }

\* What the wrapped handler does when run: write body, or raise.
Handlers == [ body : HandlerBodies, fails : BOOLEAN ]

Requests ==
    [ via : { "authorization_wrapper", "ui_access_wrapper" },
      path : Paths,
      task_header : BOOLEAN,         \* 'X-AppEngine-TaskName' in headers
      xsrf_token : Tokens,           \* request.get('xsrf_token')
      namespace : Namespaces,        \* request.get('namespace')
      is_admin : BOOLEAN,            \* users.is_current_user_admin()
      args : { <<>>, <<"a">> },      \* *args of dispatch
      ambient : { "", "course1" },   \* namespace current when dispatch starts
      handler : Handlers ]

\* Requests of the concurrent specification: UI pages, told apart by their
\* namespace parameter.
ConcRequests ==
    { r \in Requests :
        /\ r.via = "ui_access_wrapper"
        /\ r.path = "/mapreduce/ui/detail"
        /\ r.xsrf_token \in { "", "tok123" }
        /\ r.is_admin = FALSE
        /\ r.args = <<>>
        /\ r.ambient = ""
        /\ r.handler.body = "" }

NoRequest == [ via |-> "none" ]
NoCall == [ pending |-> FALSE ]
FreshResponse == [ status |-> 200, body |-> "", charset |-> "utf-8" ]

(***************************************************************************)
(* Collaborators that live outside mapreduce_module.py.                    *)
(***************************************************************************)

\* utils.XsrfTokenManager.is_xsrf_token_valid(token, action): the token was
\* issued for that action and has not expired.
IssuedTokens == { <<"tok123", "view-mapreduce-ui">>, <<"tok999", "edit-course">> }

is_xsrf_token_valid(token, action) == <<token, action>> \in IssuedTokens

\* common.utils.Namespace.__enter__: remember the current namespace of this
\* execution context, then make new_namespace current.
Namespace_enter(t, new_namespace) ==
    /\ saved' = [saved EXCEPT ![t] = ns[t]]
    /\ ns' = [ns EXCEPT ![t] = new_namespace]
    /\ nscalls' = [nscalls EXCEPT ![t] = @ + 1]

\* common.utils.Namespace.__exit__: make the remembered namespace current
\* again, on a normal and on an exceptional exit alike.
Namespace_exit(t) ==
    /\ ns' = [ns EXCEPT ![t] = saved[t]]
    /\ nscalls' = [nscalls EXCEPT ![t] = @ + 1]
    /\ UNCHANGED saved

(***************************************************************************)
(* Request arrival and the wrapped handler.                                *)
(***************************************************************************)

\* An execution context picks up a request; the handler object, its
\* response and the context's namespace are fresh for it.
Receive(t, r) ==
    /\ pc[t] = "idle"
    /\ pc' = [pc EXCEPT ![t] = "dispatch"]
    /\ req' = [req EXCEPT ![t] = r]
    /\ resp' = [resp EXCEPT ![t] = FreshResponse]
    /\ ns' = [ns EXCEPT ![t] = r.ambient]
    /\ saved' = [saved EXCEPT ![t] = ""]
    /\ nscalls' = [nscalls EXCEPT ![t] = 0]
    /\ call' = [call EXCEPT ![t] = NoCall]
    /\ seen' = [seen EXCEPT ![t] = <<>>]
    /\ UNCHANGED <<enabled, rw, register_vars>>

\* A free context picks up one of the requests that may arrive.
Arrive(t, arriving) ==
    /\ pc[t] = "idle"
    /\ \E r \in arriving : Receive(t, r)

\* The request is over (answered, or failed with the handler's error): the
\* handler object and its response are dropped and the context is free.
Finish(t) ==
    /\ pc[t] \in { "done", "raised" }
    /\ pc' = [pc EXCEPT ![t] = "idle"]
    /\ req' = [req EXCEPT ![t] = NoRequest]
    /\ resp' = [resp EXCEPT ![t] = FreshResponse]
    /\ ns' = [ns EXCEPT ![t] = ""]
    /\ saved' = [saved EXCEPT ![t] = ""]
    /\ nscalls' = [nscalls EXCEPT ![t] = 0]
    /\ call' = [call EXCEPT ![t] = NoCall]
    /\ seen' = [seen EXCEPT ![t] = <<>>]
    /\ UNCHANGED <<enabled, rw, register_vars>>

\* An administrator changes the configuration property.
SetEnabled ==
    /\ enabled' = ~enabled
    /\ UNCHANGED <<pc, req, resp, ns, saved, nscalls, call, seen, rw, register_vars>>

\* What the wrapped handler observes when it runs.
observation(t) ==
    [ request |-> call[t].self, args |-> call[t].args, namespace |-> ns[t] ]

\* self.real_dispatch(*args, **kwargs): the original handler runs with what
\* it was called with, under the namespace current in its context, and
\* either writes its body and returns or raises.
real_dispatch(t) ==
    /\ pc[t] = "in_handler"
    /\ call[t].pending
    /\ seen' = [seen EXCEPT ![t] = Append(@, observation(t))]
    /\ call' = [call EXCEPT ![t] = NoCall]
    /\ IF call[t].self.handler.fails
       THEN /\ pc' = [pc EXCEPT ![t] = "handler_raised"]
            /\ UNCHANGED resp
       ELSE /\ pc' = [pc EXCEPT ![t] = "handler_returned"]
            /\ resp' = [resp EXCEPT ![t].body = @ \o call[t].self.handler.body]
    /\ UNCHANGED <<enabled, req, ns, saved, nscalls, rw, register_vars>>

\* Variant: the body is written and the status left as it was.
forbidden_without_status(response) == [ response EXCEPT !.body = @ \o "Forbidden" ]

\* self.response.out.write('Forbidden'); self.response.set_status(403)
forbidden(response) ==
    [ response EXCEPT !.body = @ \o "Forbidden", !.status = 403 ]

(***************************************************************************)
(* authorization_wrapper (lines 52-62).                                    *)
(***************************************************************************)

\* Variant: an administrator is let through without the header.
lacks_task_header_unless_admin(r) == ~r.task_header /\ ~r.is_admin

\* 'X-AppEngine-TaskName' not in self.request.headers
lacks_task_header(r) == ~r.task_header

\* Lines 58-61: no header, so 403 and return.
AuthForbidden(t) ==
    /\ pc[t] = "dispatch"
    /\ req[t].via = "authorization_wrapper"
    /\ lacks_task_header(req[t])
    /\ resp' = [resp EXCEPT ![t] = forbidden(@)]
    /\ pc' = [pc EXCEPT ![t] = "done"]
    /\ UNCHANGED <<enabled, req, ns, saved, nscalls, call, seen, rw, register_vars>>

\* Variant: the call of self.real_dispatch() without its arguments.
AuthCallNoArgs(t) ==
    /\ pc[t] = "dispatch"
    /\ req[t].via = "authorization_wrapper"
    /\ req[t].task_header
    /\ call' = [call EXCEPT ![t] = [ pending |-> TRUE, self |-> req[t], args |-> <<>> ]]
    /\ pc' = [pc EXCEPT ![t] = "in_handler"]
    /\ UNCHANGED <<enabled, req, resp, ns, saved, nscalls, seen, rw, register_vars>>

\* Line 62: the call of self.real_dispatch(*args, **kwargs).
AuthCall(t) ==
    /\ pc[t] = "dispatch"
    /\ req[t].via = "authorization_wrapper"
    /\ ~lacks_task_header(req[t])
    /\ call' = [call EXCEPT ![t] =
                   [ pending |-> TRUE, self |-> req[t], args |-> req[t].args ]]
    /\ pc' = [pc EXCEPT ![t] = "in_handler"]
    /\ UNCHANGED <<enabled, req, resp, ns, saved, nscalls, seen, rw, register_vars>>

\* Line 62 on the way out: the wrapper ends with the handler, passing a
\* raised error on untouched.
AuthReturn(t) ==
    /\ req[t].via = "authorization_wrapper"
    /\ pc[t] \in { "handler_returned", "handler_raised" }
    /\ pc' = [pc EXCEPT ![t] = IF pc[t] = "handler_raised" THEN "raised" ELSE "done"]
    /\ UNCHANGED <<enabled, req, resp, ns, saved, nscalls, call, seen, rw, register_vars>>

(***************************************************************************)
(* ui_access_wrapper (lines 65-120).                                       *)
(***************************************************************************)

\* Lines 66-69.
content_is_static(path) ==
    /\ startswith(path, "/mapreduce/ui/")
    /\ (endswith(path, ".css") \/ endswith(path, ".js"))

\* Variant: static content is served whatever the configuration property.
ui_admits_static_regardless(r, ui_enabled) ==
    \/ content_is_static(r.path)
    \/ /\ ui_enabled
       /\ \/ is_xsrf_token_valid(r.xsrf_token, XSRF_ACTION_NAME)
          \/ r.is_admin

\* Lines 70-77: the condition of the if, with ui_enabled the value of the
\* configuration property read at line 73.
ui_admits(r, ui_enabled) ==
    /\ ui_enabled
    /\ \/ content_is_static(r.path)
       \/ is_xsrf_token_valid(r.xsrf_token, XSRF_ACTION_NAME)
       \/ r.is_admin

\* Lines 118-120: the else branch.
UiForbidden(t) ==
    /\ pc[t] = "dispatch"
    /\ req[t].via = "ui_access_wrapper"
    /\ ~ui_admits(req[t], enabled)
    /\ resp' = [resp EXCEPT ![t] = forbidden(@)]
    /\ pc' = [pc EXCEPT ![t] = "done"]
    /\ UNCHANGED <<enabled, req, ns, saved, nscalls, call, seen, rw, register_vars>>

\* Variant: the namespace is kept in one process-wide variable instead of
\* being switched for the calling context only.
UiCallProcessWide(t) ==
    /\ pc[t] = "dispatch"
    /\ req[t].via = "ui_access_wrapper"
    /\ ui_admits(req[t], enabled)
    /\ saved' = [saved EXCEPT ![t] = ns[t]]
    /\ ns' = [u \in Ctx |-> req[t].namespace]
    /\ nscalls' = [nscalls EXCEPT ![t] = @ + 1]
    /\ call' = [call EXCEPT ![t] =
                   [ pending |-> TRUE, self |-> req[t], args |-> req[t].args ]]
    /\ pc' = [pc EXCEPT ![t] = "in_handler"]
    /\ UNCHANGED <<enabled, req, resp, seen, rw, register_vars>>

\* Lines 78-80: namespace = self.request.get('namespace'); enter
\* Namespace(namespace); call self.real_dispatch(*args, **kwargs).
UiCall(t) ==
    /\ pc[t] = "dispatch"
    /\ req[t].via = "ui_access_wrapper"
    /\ ui_admits(req[t], enabled)
    /\ Namespace_enter(t, req[t].namespace)
    /\ call' = [call EXCEPT ![t] =
                   [ pending |-> TRUE, self |-> req[t], args |-> req[t].args ]]
    /\ pc' = [pc EXCEPT ![t] = "in_handler"]
    /\ UNCHANGED <<enabled, req, resp, seen, rw, register_vars>>

\* Lines 80-117 after the handler returned: leave the with-block, then
\* patch the body according to the path.
UiReturn(t) ==
    /\ req[t].via = "ui_access_wrapper"
    /\ pc[t] = "handler_returned"
    /\ Namespace_exit(t)
    /\ resp' = [resp EXCEPT
                   ![t].body = patch_body(req[t].path, @, req[t].namespace,
                                          req[t].xsrf_token),
                   ![t].charset = patch_charset(req[t].path, @)]
    /\ pc' = [pc EXCEPT ![t] = "done"]
    /\ UNCHANGED <<enabled, req, call, seen, rw, register_vars>>

\* Variant: the namespace is set without a with-block, so a raising
\* handler leaves it set.
UiRaiseNoRestore(t) ==
    /\ req[t].via = "ui_access_wrapper"
    /\ pc[t] = "handler_raised"
    /\ pc' = [pc EXCEPT ![t] = "raised"]
    /\ UNCHANGED <<enabled, req, resp, ns, saved, nscalls, call, seen, rw, register_vars>>

\* Line 80 when the handler raised: the with-block is left and the error
\* goes on to the caller; lines 87-117 do not run.
UiRaise(t) ==
    /\ req[t].via = "ui_access_wrapper"
    /\ pc[t] = "handler_raised"
    /\ Namespace_exit(t)
    /\ pc' = [pc EXCEPT ![t] = "raised"]
    /\ UNCHANGED <<enabled, req, resp, call, seen, rw, register_vars>>

(***************************************************************************)
(* A body under repeated application of the patch of one path.             *)
(***************************************************************************)

\* Fragments of which the bodies given to the patch of a path are made: the
\* literal the patch looks for, pieces that can form it across a seam, and
\* pieces of what the patch puts in its place.
Fragments(path) ==
    IF path = "/mapreduce/ui/pipeline/status.js"
        THEN { "rpc/tree?", "rpc/tree", "?", "rpc/", "tree?", "x" }
    ELSE IF path = "/mapreduce/ui/pipeline/rpc/tree"
        THEN { "/mapreduce/worker/detail?", "/mapreduce/worker", "/detail?",
               "/mapreduce/ui", "worker/detail?", "&" }
    ELSE IF path = "/mapreduce/ui/detail"
        THEN { "src=\"status.js\"", "src=\"", "status.js\"", "status.js", "\"", "src=" }
    ELSE IF path = "/mapreduce/ui/status.js"
        THEN { "'mapreduce_id':", "'mapreduce_id'", ":", "'", "mapreduce_id':", "{" }
    ELSE { "rpc/tree?", "/mapreduce/worker/detail?", "src=\"status.js\"",
           "'mapreduce_id':", "x" }

RECURSIVE Bodies(_, _)
Bodies(path, n) ==
    IF n = 0 THEN { "" }
    ELSE LET shorter == Bodies(path, n - 1)
         IN  shorter \cup { b \o f : b \in shorter, f \in Fragments(path) }

\* The literal the patch of a path looks for ("" when it has no patch).
anchor(path) ==
    IF path = "/mapreduce/ui/pipeline/status.js" THEN "rpc/tree?"
    ELSE IF path = "/mapreduce/ui/pipeline/rpc/tree" THEN "/mapreduce/worker/detail?"
    ELSE IF path = "/mapreduce/ui/detail" THEN "src=\"status.js\""
    ELSE IF path = "/mapreduce/ui/status.js" THEN "'mapreduce_id':"
    ELSE ""

PatchPaths ==
    { "/mapreduce/ui/pipeline/status.js", "/mapreduce/ui/pipeline/rpc/tree",
      "/mapreduce/ui/detail", "/mapreduce/ui/status.js" }

\* xsrf_token values given to a patch: none, an issued one, and the literal
\* the patch looks for.
PatchTokens(path) == { "", "tok123", anchor(path) }

RwIdle ==
    [ path |-> "", body |-> "", namespace |-> "", xsrf_token |-> "",
      n |-> 0, once |-> "", out |-> "" ]

RwInputs ==
    { [ path |-> p, body |-> b, namespace |-> nsp, xsrf_token |-> tk,
        n |-> 0, once |-> b, out |-> b ] :
        p \in PatchPaths \cup { "/mapreduce/ui/pipeline/list" },
        b \in UNION { Bodies(q, MaxFrags) : q \in PatchPaths \cup { "/mapreduce/ui/pipeline/list" } },
        nsp \in Namespaces,
        tk \in UNION { PatchTokens(q) : q \in PatchPaths } }

\* The patch of rw.path applied to the current body, with the request's
\* namespace and xsrf_token; the first result is kept for comparison.
ApplyPatch ==
    /\ rw.n < 2
    /\ LET out == patch_body(rw.path, rw.out, rw.namespace, rw.xsrf_token)
       IN  rw' = [rw EXCEPT !.out = out, !.n = @ + 1,
                            !.once = IF rw.n = 0 THEN out ELSE @]
    /\ UNCHANGED <<dispatch_vars, register_vars>>

(***************************************************************************)
(* register_module (lines 123-176).                                        *)
(***************************************************************************)

\* Patterns declared by mapreduce_main.create_handlers_map(): pipeline
\* task, pipeline RPC and pipeline UI routes first, then the callbacks,
\* the JSON commands, the static files and the catch-all.
Patterns ==
    { ".*/pipeline/run",
      ".*/pipeline/rpc/tree",
      ".*/pipeline(/.+)",
      ".*/worker_callback.*",
      ".*/command/list_configs",
      ".*/command/list_jobs",
      ".*/([^/]*\\.(?:css|js)|status|detail)$",
      ".*" }

Classes == { "HandlerA", "HandlerB" }

Routes == { <<p, c>> : p \in Patterns, c \in Classes }

RECURSIVE Tables(_)
Tables(n) ==
    IF n = 0 THEN { <<>> }
    ELSE LET shorter == Tables(n - 1)
         IN  shorter \cup { Append(tb, r) : tb \in shorter, r \in Routes }

\* custom_module = None, before register_module has run.
NoModule == [ registered |-> FALSE, name |-> "", global_routes |-> <<>> ]

\* A handler class as the library defines it: a dispatch of its own and no
\* real_dispatch.
FreshClass == [ dispatch |-> "original", real_dispatch |-> "absent" ]

\* Variant: without the list_configs branch.
rewrite_path_keep_list_configs(path) ==
    IF startswith(path, ".*/pipeline")
    THEN IF contains(path, "pipeline/rpc/") \/ path = ".*/pipeline(/.+)"
         THEN [ keep |-> TRUE,
                path |-> replace(path, ".*/pipeline", "/mapreduce/ui/pipeline") ]
         ELSE [ keep |-> TRUE,
                path |-> replace(path, ".*/pipeline", "/mapreduce/worker/pipeline") ]
    ELSE IF contains(path, "_callback")
         THEN [ keep |-> TRUE, path |-> replace_n(path, ".*", "/mapreduce/worker", 1) ]
         ELSE [ keep |-> TRUE, path |-> replace_n(path, ".*", "/mapreduce/ui", 1) ]

\* Lines 133-148: the path under its public prefix, or the route left out
\* (continue).
rewrite_path(path) ==
    IF startswith(path, ".*/pipeline")
    THEN IF contains(path, "pipeline/rpc/") \/ path = ".*/pipeline(/.+)"
         THEN [ keep |-> TRUE,
                path |-> replace(path, ".*/pipeline", "/mapreduce/ui/pipeline") ]
         ELSE [ keep |-> TRUE,
                path |-> replace(path, ".*/pipeline", "/mapreduce/worker/pipeline") ]
    ELSE IF contains(path, "_callback")
         THEN [ keep |-> TRUE, path |-> replace_n(path, ".*", "/mapreduce/worker", 1) ]
         ELSE IF contains(path, "/list_configs")
              THEN [ keep |-> FALSE, path |-> path ]
              ELSE [ keep |-> TRUE, path |-> replace_n(path, ".*", "/mapreduce/ui", 1) ]

\* Line 152.
is_ui_path(path) == contains(path, "/ui/") \/ endswith(path, "/ui")

\* Lines 153-156 and 162-165: install wrapper as the class's dispatch unless
\* the class already has a real_dispatch.
wrap(class, wrapper) ==
    IF class.dispatch # "absent" /\ class.real_dispatch = "absent"
    THEN [ dispatch |-> wrapper, real_dispatch |-> class.dispatch ]
    ELSE class

\* One iteration of the loop of lines 127-166.
RegisterRoute ==
    /\ ~custom_module.registered
    /\ i <= Len(handlers_map)
    /\ LET path == handlers_map[i][1]
           handler_class == handlers_map[i][2]
           rewritten == rewrite_path(path)
       IN  IF ~rewritten.keep
           THEN UNCHANGED <<global_handlers, cls>>
           ELSE /\ cls' = [cls EXCEPT ![handler_class] =
                             wrap(@, IF is_ui_path(rewritten.path)
                                     THEN "ui_access_wrapper"
                                     ELSE "authorization_wrapper")]
                /\ global_handlers' =
                       Append(global_handlers, <<rewritten.path, handler_class>>)
    /\ i' = i + 1
    /\ UNCHANGED <<dispatch_vars, rw, handlers_map, BASE_PATH, custom_module>>

\* Lines 168-176, once the loop is over.
RegisterFinish ==
    /\ ~custom_module.registered
    /\ i > Len(handlers_map)
    /\ BASE_PATH' = "/mapreduce/worker"
    /\ custom_module' = [ registered |-> TRUE, name |-> "Map/Reduce",
                         global_routes |-> global_handlers ]
    /\ UNCHANGED <<dispatch_vars, rw, handlers_map, i, global_handlers, cls>>

(***************************************************************************)
(* Specifications.                                                         *)
(***************************************************************************)

DispatchIdle ==
    /\ pc = [t \in Ctx |-> "idle"]
    /\ req = [t \in Ctx |-> NoRequest]
    /\ resp = [t \in Ctx |-> FreshResponse]
    /\ ns = [t \in Ctx |-> ""]
    /\ saved = [t \in Ctx |-> ""]
    /\ nscalls = [t \in Ctx |-> 0]
    /\ call = [t \in Ctx |-> NoCall]
    /\ seen = [t \in Ctx |-> <<>>]

RegisterIdle ==
    /\ handlers_map = <<>>
    /\ i = 1
    /\ global_handlers = <<>>
    /\ cls = [c \in Classes |-> FreshClass]
    /\ BASE_PATH = "/mapreduce"
    /\ custom_module = NoModule

\* One execution context serving requests through either filter.
Init ==
    /\ enabled = FALSE
    /\ DispatchIdle
    /\ rw = RwIdle
    /\ RegisterIdle

Next ==
    \/ Arrive(1, Requests)
    \/ Finish(1)
    \/ SetEnabled
    \/ real_dispatch(1)
    \/ AuthForbidden(1)
    \/ AuthCall(1)
    \/ AuthReturn(1)
    \/ UiForbidden(1)
    \/ UiCall(1)
    \/ UiReturn(1)
    \/ UiRaise(1)

Spec == Init /\ [][Next]_vars

\* Several execution contexts serving UI requests at once.
ConcNext ==
    \/ \E t \in Ctx : Arrive(t, ConcRequests)
    \/ \E t \in Ctx : Finish(t)
    \/ SetEnabled
    \/ \E t \in Ctx : real_dispatch(t)
    \/ \E t \in Ctx : UiForbidden(t)
    \/ \E t \in Ctx : UiCall(t)
    \/ \E t \in Ctx : UiReturn(t)
    \/ \E t \in Ctx : UiRaise(t)

ConcSpec == Init /\ [][ConcNext]_vars

\* The patches as functions of a body.
RewriteInit ==
    /\ enabled = FALSE
    /\ DispatchIdle
    /\ rw \in RwInputs
    /\ RegisterIdle

RewriteNext == ApplyPatch

RewriteSpec == RewriteInit /\ [][RewriteNext]_vars

\* register_module over every declared table of at most MaxRoutes routes.
RegisterInit ==
    /\ enabled = FALSE
    /\ DispatchIdle
    /\ rw = RwIdle
    /\ handlers_map \in Tables(MaxRoutes)
    /\ i = 1
    /\ global_handlers = <<>>
    /\ cls = [c \in Classes |-> FreshClass]
    /\ BASE_PATH = "/mapreduce"
    /\ custom_module = NoModule

RegisterNext == RegisterRoute \/ RegisterFinish

RegisterSpec == RegisterInit /\ [][RegisterNext]_vars

(***************************************************************************)
(* Properties of authorization_wrapper.                                    *)
(***************************************************************************)

\* C1: a request dispatched through authorization_wrapper without the
\* X-AppEngine-TaskName header is answered 403 'Forbidden'; the wrapped
\* handler is never invoked and no namespace switch is made.
C1_WorkerWithoutHeaderForbidden ==
    \A t \in Ctx :
        ( /\ req[t].via = "authorization_wrapper"
          /\ ~req[t].task_header
          /\ pc[t] # "dispatch" )
        => /\ pc[t] = "done"
           /\ resp[t].status = 403
           /\ resp[t].body = "Forbidden"
           /\ seen[t] = <<>>
           /\ ~call[t].pending
           /\ nscalls[t] = 0
           /\ ns[t] = req[t].ambient

\* Refused although the caller is an administrator with a valid token.
C1_Witness ==
    \E t \in Ctx :
        /\ req[t].via = "authorization_wrapper"
        /\ ~req[t].task_header
        /\ req[t].is_admin
        /\ req[t].xsrf_token = "tok123"
        /\ pc[t] = "done"
        /\ resp[t].status = 403

\* C4: a request dispatched through authorization_wrapper with the
\* X-AppEngine-TaskName header has its wrapped handler invoked exactly once,
\* with the unmodified request and arguments, whatever its token, the
\* caller's administrator identity and the UI flag.
C4_WorkerWithHeaderInvokedOnce ==
    \A t \in Ctx :
        ( req[t].via = "authorization_wrapper" /\ req[t].task_header )
        => /\ Len(seen[t]) <= 1
           /\ resp[t].status # 403
           /\ pc[t] = "in_handler"
                => call[t] = [ pending |-> TRUE, self |-> req[t], args |-> req[t].args ]
           /\ pc[t] \in { "handler_returned", "handler_raised", "done", "raised" }
                => /\ Len(seen[t]) = 1
                   /\ seen[t][1].request = req[t]
                   /\ seen[t][1].args = req[t].args
                   /\ seen[t][1].namespace = req[t].ambient
                   /\ ~call[t].pending
           /\ nscalls[t] = 0

\* Invoked with arguments for a caller with no token and no administrator
\* identity, while the UI flag is off.
C4_Witness ==
    \E t \in Ctx :
        /\ req[t].via = "authorization_wrapper"
        /\ req[t].task_header
        /\ ~req[t].is_admin
        /\ req[t].xsrf_token = ""
        /\ req[t].args = <<"a">>
        /\ ~enabled
        /\ pc[t] = "done"
        /\ Len(seen[t]) = 1

(***************************************************************************)
(* Properties of ui_access_wrapper.                                        *)
(***************************************************************************)

\* The admission condition as the contract words it, on the configuration
\* value current when the filter decides.
AdmissionCondition(r, flag) ==
    /\ flag = TRUE
    /\ \/ ( /\ Len(r.path) >= 14
            /\ SubSeq(r.path, 1, 14) = "/mapreduce/ui/"
            /\ \/ SubSeq(r.path, Len(r.path) - 3, Len(r.path)) = ".css"
               \/ SubSeq(r.path, Len(r.path) - 2, Len(r.path)) = ".js" )
       \/ <<r.xsrf_token, "view-mapreduce-ui">> \in IssuedTokens
       \/ r.is_admin = TRUE

\* C2: a request dispatched through ui_access_wrapper reaches its wrapped
\* handler if and only if the UI flag is on and the path is a static asset
\* under /mapreduce/ui/, or the xsrf_token is valid for 'view-mapreduce-ui',
\* or the caller is a platform administrator.
C2_UiAdmittedIffCondition ==
    [][ \A t \in Ctx :
          ( /\ req[t].via = "ui_access_wrapper"
            /\ pc[t] = "dispatch"
            /\ pc'[t] # "dispatch" )
          => ( ( pc'[t] = "in_handler" /\ call'[t].pending )
               <=> AdmissionCondition(req[t], enabled) ) ]_vars

\* A static asset served to a caller with no token and no administrator
\* identity.
C2_Witness ==
    \E t \in Ctx :
        /\ req[t].via = "ui_access_wrapper"
        /\ req[t].path = "/mapreduce/ui/base.css"
        /\ req[t].xsrf_token = ""
        /\ ~req[t].is_admin
        /\ pc[t] = "done"
        /\ Len(seen[t]) = 1
        /\ resp[t].status = 200

\* C3: a request that ui_access_wrapper denies, and so every request made
\* while the UI flag is off, is answered 403 'Forbidden'; the wrapped
\* handler does not run, no namespace switch is made and no patch is
\* applied to the body.
C3_UiDeniedFailsClosed ==
    [][ \A t \in Ctx :
          ( /\ req[t].via = "ui_access_wrapper"
            /\ pc[t] = "dispatch"
            /\ pc'[t] # "dispatch"
            /\ ~AdmissionCondition(req[t], enabled) )
          => /\ pc'[t] = "done"
             /\ resp'[t] = [ status |-> 403, body |-> "Forbidden", charset |-> "utf-8" ]
             /\ seen'[t] = <<>>
             /\ ~call'[t].pending
             /\ ns'[t] = ns[t]
             /\ saved'[t] = saved[t]
             /\ nscalls'[t] = 0 ]_vars

\* Denied with the flag off although the caller is an administrator with a
\* valid token asking for a static asset.
C3_Witness ==
    \E t \in Ctx :
        /\ req[t].via = "ui_access_wrapper"
        /\ ~enabled
        /\ req[t].is_admin
        /\ req[t].xsrf_token = "tok123"
        /\ req[t].path = "/mapreduce/ui/status.js"
        /\ pc[t] = "done"
        /\ resp[t].status = 403
        /\ seen[t] = <<>>

\* C5: for an admitted UI request the namespace current while the wrapped
\* handler runs is the request's 'namespace' parameter, and once the nested
\* call is over, by return or by failure, the current namespace is again the
\* one that was current before the switch.
C5_NamespaceScopedToCall ==
    \A t \in Ctx :
        req[t].via = "ui_access_wrapper"
        => /\ \A k \in 1..Len(seen[t]) : seen[t][k].namespace = req[t].namespace
           /\ pc[t] = "in_handler"
                => ns[t] = req[t].namespace /\ saved[t] = req[t].ambient
           /\ pc[t] \in { "done", "raised" } => ns[t] = req[t].ambient

\* The handler failed under a namespace other than the prior one.
C5_Witness ==
    \E t \in Ctx :
        /\ req[t].via = "ui_access_wrapper"
        /\ pc[t] = "raised"
        /\ Len(seen[t]) = 1
        /\ req[t].namespace = "ns_2"
        /\ req[t].ambient = "course1"
        /\ seen[t][1].namespace = "ns_2"

\* The body the contract assigns to a path: the one substitution of the
\* path on the handler's body, or the handler's body.
ExpectedBody(r) ==
    LET q == urlencode_params(r.namespace, r.xsrf_token)
        b == r.handler.body
    IN  CASE r.path = "/mapreduce/ui/pipeline/status.js"
                -> replace(b, "rpc/tree?", "rpc/tree' + window.location.search + '&")
          [] r.path = "/mapreduce/ui/pipeline/rpc/tree"
                -> replace(b, "/mapreduce/worker/detail?", "/mapreduce/ui/detail?" \o q \o "&")
          [] r.path = "/mapreduce/ui/detail"
                -> replace(b, "src=\"status.js\"", "src=\"status.js?" \o q \o "\"")
          [] r.path = "/mapreduce/ui/status.js"
                -> replace(b, "'mapreduce_id':",
                           "'namespace': '" \o r.namespace \o "', 'xsrf_token': '"
                               \o r.xsrf_token \o "', 'mapreduce_id':")
          [] OTHER -> b

\* C8: the body sent for an admitted UI request whose handler returned is
\* the handler's body with the one substitution of its path applied when the
\* path is one of the four endpoints, and the handler's body otherwise; no
\* patch is applied before the handler has run, on a denied request, on a
\* failed handler or on a request served through authorization_wrapper.
C8_BodyPatchedOnlyAfterSuccess ==
    \A t \in Ctx :
        /\ req[t].via = "ui_access_wrapper"
           => /\ pc[t] \in { "dispatch", "in_handler", "raised" } => resp[t].body = ""
              /\ pc[t] = "handler_returned" => resp[t].body = req[t].handler.body
              /\ (pc[t] = "done" /\ Len(seen[t]) = 1) => resp[t].body = ExpectedBody(req[t])
              /\ (pc[t] = "done" /\ seen[t] = <<>>) => resp[t].body = "Forbidden"
        /\ req[t].via = "authorization_wrapper"
           => /\ (pc[t] = "done" /\ Len(seen[t]) = 1) => resp[t].body = req[t].handler.body
              /\ resp[t].charset = "utf-8"

\* The status script served with namespace course1 and token tok123.
C8_Witness ==
    \E t \in Ctx :
        /\ req[t].via = "ui_access_wrapper"
        /\ req[t].path = "/mapreduce/ui/status.js"
        /\ req[t].namespace = "course1"
        /\ req[t].xsrf_token = "tok123"
        /\ pc[t] = "done"
        /\ Len(seen[t]) = 1
        /\ seen[t][1].namespace = "course1"
        /\ resp[t].charset = "utf8"
        /\ resp[t].body = "<script src=\"status.js\"></script>{'namespace': 'course1', 'xsrf_token': 'tok123', 'mapreduce_id': 7} /mapreduce/worker/detail?mapreduce_id=7 rpc/tree?a rpc/tree?b"

\* C6: when admitted UI requests with different 'namespace' parameters run
\* at once on separate execution contexts, each wrapped handler observes
\* only the namespace of its own request, in every interleaving.
C6_NamespaceNotLeaked ==
    \A t \in Ctx : \A u \in Ctx \ { t } :
        ( pc[u] \in { "in_handler", "handler_returned", "handler_raised" }
          /\ req[t].via = "ui_access_wrapper" )
        => /\ \A k \in 1..Len(seen[t]) : seen[t][k].namespace = req[t].namespace
           /\ pc[t] \in { "in_handler", "handler_returned", "handler_raised" }
                => ns[t] = req[t].namespace
           /\ pc[t] \in { "dispatch", "done", "raised" } => ns[t] = req[t].ambient

\* One handler has run under its namespace while another context is inside
\* its own handler under a different one.
C6_Witness ==
    \E t \in Ctx : \E u \in Ctx \ { t } :
        /\ pc[t] = "handler_returned"
        /\ Len(seen[t]) = 1
        /\ pc[u] = "in_handler"
        /\ req[t].namespace = "course1"
        /\ req[u].namespace = "ns_2"
        /\ seen[t][1].namespace = "course1"
        /\ ns[u] = "ns_2"

(***************************************************************************)
(* Properties of the body patches.                                         *)
(***************************************************************************)

\* C7 as stated: each of the four patches is idempotent, so a second
\* application to an already patched body leaves it unchanged.
C7_EveryPatchIdempotent ==
    (rw.n = 2 /\ rw.path \in PatchPaths) => rw.out = rw.once

\* C7 as amended: the patches of /mapreduce/ui/pipeline/status.js,
\* /mapreduce/ui/pipeline/rpc/tree and /mapreduce/ui/detail are idempotent
\* for every body, namespace and token; the patch of /mapreduce/ui/status.js
\* is idempotent only on a body without 'mapreduce_id': and otherwise
\* lengthens the body again on its second application, since what it inserts
\* ends with the literal it looks for.
C7_PatchesIdempotentButStatusJs ==
    (rw.n = 2 /\ rw.path \in PatchPaths)
    => IF rw.path = "/mapreduce/ui/status.js"
       THEN IF contains(rw.body, "'mapreduce_id':")
            THEN Len(rw.out) > Len(rw.once) /\ Len(rw.once) > Len(rw.body)
            ELSE rw.out = rw.once /\ rw.once = rw.body
       ELSE rw.out = rw.once

\* The RPC-tree patch applied twice to a body it changed, with a token that
\* spells the literal the patch looks for.
C7_Witness ==
    /\ rw.n = 2
    /\ rw.path = "/mapreduce/ui/pipeline/rpc/tree"
    /\ rw.xsrf_token = "/mapreduce/worker/detail?"
    /\ rw.body = "/mapreduce/worker/detail?"
    /\ rw.once = "/mapreduce/ui/detail?xsrf_token=%2Fmapreduce%2Fworker%2Fdetail%3F&"
    /\ rw.out = rw.once

(***************************************************************************)
(* Properties of register_module.                                          *)
(***************************************************************************)

\* The declared route of the configuration-listing endpoint.
IsListConfigs(route) == route[1] = ".*/command/list_configs"

NotListConfigs(route) == ~IsListConfigs(route)

\* C9: the assembled table holds no route for /list_configs, and every
\* other declared pattern has exactly one entry, in order, with its handler
\* and with its path rewritten under exactly one of the UI and worker
\* prefixes.
C9_ListConfigsDroppedOthersKept ==
    custom_module.registered
    => LET retained == SelectSeq(handlers_map, NotListConfigs)
           table == custom_module.global_routes
       IN  /\ table = global_handlers
           /\ Len(table) = Len(retained)
           /\ \A k \in 1..Len(table) :
                /\ ~contains(table[k][1], "/list_configs")
                /\ table[k][2] = retained[k][2]
                /\ LET rest == SubSeq(retained[k][1], 3, Len(retained[k][1]))
                   IN  \/ table[k][1] = "/mapreduce/ui" \o rest
                       \/ table[k][1] = "/mapreduce/worker" \o rest
                /\ ~( startswith(table[k][1], "/mapreduce/ui")
                      /\ startswith(table[k][1], "/mapreduce/worker") )

\* A table declaring /list_configs and a callback with two wildcards.
C9_Witness ==
    /\ custom_module.registered
    /\ Len(handlers_map) = 2
    /\ handlers_map[1][1] = ".*/command/list_configs"
    /\ handlers_map[2][1] = ".*/worker_callback.*"
    /\ Len(global_handlers) = 1
    /\ global_handlers[1][1] = "/mapreduce/worker/worker_callback.*"

\* C10: after register_module every entry of the assembled table is guarded
\* by the filter matching its rewritten path (authorization_wrapper under
\* /mapreduce/worker, ui_access_wrapper under /mapreduce/ui), and
\* real_dispatch is the handler's original dispatch.
C10_EveryRouteGuardedByItsFilter ==
    custom_module.registered
    => \A k \in 1..Len(custom_module.global_routes) :
         LET path == custom_module.global_routes[k][1]
             handler_class == cls[custom_module.global_routes[k][2]]
         IN  /\ startswith(path, "/mapreduce/worker")
                  => handler_class.dispatch = "authorization_wrapper"
             /\ startswith(path, "/mapreduce/ui")
                  => handler_class.dispatch = "ui_access_wrapper"
             /\ handler_class.real_dispatch = "original"

====
